---- MODULE Spec2Model ----
(***************************************************************************)
(* Model of lib/cdk-ecs-ecr-pipeline-stack.ts: the constructor of          *)
(* CdkEcsEcrPipelineStack (one action per statement, in program order),    *)
(* the build commands it generates, and the execution of the three-stage   *)
(* pipeline it declares by the orchestration service it configures.        *)
(*                                                                         *)
(* Strings the code takes apart or pastes together (ecrRepositoryUri, the  *)
(* shell command lines, the manifest) are sequences of characters; a       *)
(* literal of the source that is never taken apart is one element.         *)
(***************************************************************************)
EXTENDS Integers, Sequences, FiniteSets, TLC

VARIABLES
  vpcId, ecrRepositoryUri,          \* props (l.20)
  pc,                               \* the statement the constructor is at
  vpc, ecsSecurityGroup, repository, cluster, autoScalingGroup,
  ec2TaskDefinition, ec2Service,
  sourceOutput, buildOutput, project, pipeline,
  \* execution of the declared pipeline
  execId, state, stageIdx, started, succeeded, trigger,
  artifactStore, reads, writes, failure, rolledOut

defVars == <<vpcId, ecrRepositoryUri, pc, vpc, ecsSecurityGroup, repository,
             cluster, autoScalingGroup, ec2TaskDefinition, ec2Service,
             sourceOutput, buildOutput, project, pipeline>>
runVars == <<execId, state, stageIdx, started, succeeded, trigger,
             artifactStore, reads, writes, failure, rolledOut>>
vars == <<defVars, runVars>>

----------------------------------------------------------------------------
(* Bounds *)

MaxUriLen == 5
MaxExecutions == 2

(* Characters an ecrRepositoryUri is made of here: a name character, the
   path separator and a blank. *)
Chars == {"a", "/", " "}

RECURSIVE SeqsUpTo(_)
SeqsUpTo(n) ==
  IF n = 0 THEN {<<>>}
  ELSE LET S == SeqsUpTo(n - 1)
       IN  S \cup {Append(s, c) : s \in {t \in S : Len(t) = n - 1}, c \in Chars}

Uris == SeqsUpTo(MaxUriLen)

(* The network directory: the ids a lookup can be asked for and the ones
   that exist. *)
VpcIds == {"vpc-1", "vpc-x"}
ExistingVpcs == {"vpc-1"}

----------------------------------------------------------------------------
(* String helpers, as the JavaScript and shell primitives compute them *)

(* String.prototype.split(sep): the pieces between separators, empty pieces
   kept; "" splits to [""]. *)
RECURSIVE Split(_, _)
Split(s, sep) ==
  IF \A i \in 1..Len(s) : s[i] # sep THEN <<s>>
  ELSE LET i == CHOOSE k \in 1..Len(s) :
                  s[k] = sep /\ \A j \in 1..(k - 1) : s[j] # sep
       IN  <<SubSeq(s, 1, i - 1)>> \o Split(SubSeq(s, i + 1, Len(s)), sep)

(* JavaScript array index (0-based); out of range is undefined, which a
   template literal prints as "undefined". *)
Undefined == <<"undefined">>
At(arr, i) == IF i + 1 \in 1..Len(arr) THEN arr[i + 1] ELSE Undefined

(* Shell field splitting: the non-empty runs between blanks. *)
Fields(s) == LET parts == Split(s, " ")
             IN  SelectSeq(parts, LAMBDA w : w # <<>>)

----------------------------------------------------------------------------
(* Values the constructor computes from its props *)

(* this.region, this.account of the stack *)
Region == "REGION"
Account == "ACCOUNT"

(* l.37: ecrRepositoryUri.split('/')[1] *)
RepositoryName(uri) == At(Split(uri, "/"), 1)

(* l.36: `arn:aws:ecr:${region}:${account}:repository/${split('/')[1]}` *)
RepositoryArn(uri) ==
  <<"arn:aws:ecr:", Region, ":", Account, ":repository/">>
    \o At(Split(uri, "/"), 1)

(* Variant: the container id spelled differently from the manifest's name. *)
ContainerName_Lower == <<"myContainer">>

(* l.69: the id given to addContainer *)
ContainerName == <<"MyContainer">>

(* l.70: `${ecrRepositoryUri}:latest` *)
ContainerImage(uri) == uri \o <<":latest">>

(* l.121: the printf format, cut at the places a reader of the manifest
   looks at: the text before the name, the name, the text between name and
   image, the conversion, the closing text. *)
OpenText == "[{\"name\":\""
MidText == "\",\"imageUri\":\""
CloseText == "\"}]"
ManifestFormat == <<OpenText, "MyContainer", MidText, "%s", CloseText>>

(* Variant of the build specification: the printf argument without the tag. *)
BuildSpec_NoTag(uri) ==
  [ pre_build |-> << [op |-> "echo"],
                     [op |-> "external"],
                     [op |-> "echo"],
                     [op |-> "external"],
                     [op |-> "line", text |-> <<"REPOSITORY_URI=">> \o uri] >>,
    build     |-> << [op |-> "echo"],
                     [op |-> "echo"],
                     [op |-> "printf",
                      format |-> ManifestFormat,
                      args |-> << <<"$REPOSITORY_URI">> >>,
                      file |-> "imagedefinitions.json"] >>,
    files     |-> {"imagedefinitions.json"} ]

(* l.105-128: the build specification.  A command is
     echo      prints, cannot fail
     external  asks a service outside the build (sts, ecr, docker)
     line      a command line pasted together from text, parsed by the shell
     printf    printf FORMAT ARGS > FILE, ARGS unquoted                     *)
BuildSpec(uri) ==
  [ pre_build |-> << [op |-> "echo"],
                     [op |-> "external"],
                     [op |-> "echo"],
                     [op |-> "external"],
                     [op |-> "line", text |-> <<"REPOSITORY_URI=">> \o uri] >>,
    build     |-> << [op |-> "echo"],
                     [op |-> "echo"],
                     [op |-> "printf",
                      format |-> ManifestFormat,
                      args |-> << <<"$REPOSITORY_URI", ":latest">> >>,
                      file |-> "imagedefinitions.json"] >>,
    files     |-> {"imagedefinitions.json"} ]

----------------------------------------------------------------------------
(* The constructor, l.17-181 *)

NoVpc == [resolved |-> FALSE, vpcId |-> ""]
NoRepository == [resolved |-> FALSE, repositoryArn |-> <<>>, repositoryName |-> <<>>]
NoSecurityGroup == [defined |-> FALSE, vpc |-> NoVpc, allowAllOutbound |-> FALSE]
NoCluster == [defined |-> FALSE, vpc |-> NoVpc]
NoAutoScalingGroup ==
  [defined |-> FALSE, cluster |-> NoCluster, instanceType |-> "",
   desiredCapacity |-> 0, keyName |-> "", securityGroups |-> {}]
NoTaskDefinition == [defined |-> FALSE, containers |-> <<>>]
NoService ==
  [defined |-> FALSE, cluster |-> NoCluster, taskDefinition |-> NoTaskDefinition,
   publicLoadBalancer |-> FALSE]
NoArtifact == "undefined"
NoProject == [defined |-> FALSE, buildSpec |-> BuildSpec(<<>>)]
NoPipeline == [defined |-> FALSE, pipelineName |-> "", stages |-> <<>>]

(* Variant of the program order: the repository imported last. *)
NextStatement_RepositoryLast(l) ==
  CASE l = "vpc"               -> "ecsSecurityGroup"
    [] l = "ecsSecurityGroup"  -> "cluster"
    [] l = "cluster"           -> "autoScalingGroup"
    [] l = "autoScalingGroup"  -> "ec2TaskDefinition"
    [] l = "ec2TaskDefinition" -> "ec2Service"
    [] l = "ec2Service"        -> "artifacts"
    [] l = "artifacts"         -> "project"
    [] l = "project"           -> "pipeline"
    [] l = "pipeline"          -> "repository"
    [] l = "repository"        -> "done"

(* Program order of the statements: the statement that follows l. *)
NextStatement(l) ==
  CASE l = "vpc"               -> "ecsSecurityGroup"    \* l.23 -> l.28
    [] l = "ecsSecurityGroup"  -> "repository"          \* l.28 -> l.35
    [] l = "repository"        -> "cluster"             \* l.35 -> l.41
    [] l = "cluster"           -> "autoScalingGroup"    \* l.41 -> l.46
    [] l = "autoScalingGroup"  -> "ec2TaskDefinition"   \* l.53 -> l.56
    [] l = "ec2TaskDefinition" -> "ec2Service"          \* l.80 -> l.84
    [] l = "ec2Service"        -> "artifacts"           \* l.89 -> l.92
    [] l = "artifacts"         -> "project"             \* l.93 -> l.96
    [] l = "project"           -> "pipeline"            \* l.141 -> l.144
    [] l = "pipeline"          -> "done"                \* l.180 -> l.181

(* The network directory service: lookup(id) gives a handle, or fails when
   the id does not exist. *)
fromLookup(id) ==
  [found |-> id \in ExistingVpcs, handle |-> [resolved |-> TRUE, vpcId |-> id]]

(* Variant of l.23-25: a failed lookup caught and ignored. *)
ResolveVpc_Swallow ==
  /\ pc = "vpc"
  /\ LET r == fromLookup(vpcId)
     IN  vpc' = IF r.found THEN r.handle ELSE vpc
  /\ pc' = NextStatement("vpc")
  /\ UNCHANGED <<vpcId, ecrRepositoryUri, ecsSecurityGroup, repository, cluster,
                 autoScalingGroup, ec2TaskDefinition, ec2Service, sourceOutput,
                 buildOutput, project, pipeline, runVars>>

(* l.23-25: const vpc = ec2.Vpc.fromLookup(...); no handler around it, so a
   failed lookup ends the constructor. *)
ResolveVpc ==
  /\ pc = "vpc"
  /\ LET r == fromLookup(vpcId)
     IN  IF r.found
         THEN /\ vpc' = r.handle
              /\ pc' = NextStatement("vpc")
         ELSE /\ vpc' = vpc
              /\ pc' = "failed"
  /\ UNCHANGED <<vpcId, ecrRepositoryUri, ecsSecurityGroup, repository, cluster,
                 autoScalingGroup, ec2TaskDefinition, ec2Service, sourceOutput,
                 buildOutput, project, pipeline, runVars>>

(* l.28-32 *)
DefineSecurityGroup ==
  /\ pc = "ecsSecurityGroup"
  /\ ecsSecurityGroup' = [defined |-> TRUE, vpc |-> vpc, allowAllOutbound |-> TRUE]
  /\ pc' = NextStatement("ecsSecurityGroup")
  /\ UNCHANGED <<vpcId, ecrRepositoryUri, vpc, repository, cluster,
                 autoScalingGroup, ec2TaskDefinition, ec2Service, sourceOutput,
                 buildOutput, project, pipeline, runVars>>

(* l.35-38 *)
ResolveRepository ==
  /\ pc = "repository"
  /\ repository' = [resolved |-> TRUE,
                    repositoryArn |-> RepositoryArn(ecrRepositoryUri),
                    repositoryName |-> RepositoryName(ecrRepositoryUri)]
  /\ pc' = NextStatement("repository")
  /\ UNCHANGED <<vpcId, ecrRepositoryUri, vpc, ecsSecurityGroup, cluster,
                 autoScalingGroup, ec2TaskDefinition, ec2Service, sourceOutput,
                 buildOutput, project, pipeline, runVars>>

(* l.41-43 *)
DefineCluster ==
  /\ pc = "cluster"
  /\ cluster' = [defined |-> TRUE, vpc |-> vpc]
  /\ pc' = NextStatement("cluster")
  /\ UNCHANGED <<vpcId, ecrRepositoryUri, vpc, ecsSecurityGroup, repository,
                 autoScalingGroup, ec2TaskDefinition, ec2Service, sourceOutput,
                 buildOutput, project, pipeline, runVars>>

(* l.46-53: addCapacity, then addSecurityGroup *)
AddCapacity ==
  /\ pc = "autoScalingGroup"
  /\ autoScalingGroup' =
       [defined |-> TRUE, cluster |-> cluster, instanceType |-> "t2.micro",
        desiredCapacity |-> 2, keyName |-> "dev-test",
        securityGroups |-> {ecsSecurityGroup}]
  /\ pc' = NextStatement("autoScalingGroup")
  /\ UNCHANGED <<vpcId, ecrRepositoryUri, vpc, ecsSecurityGroup, repository,
                 cluster, ec2TaskDefinition, ec2Service, sourceOutput,
                 buildOutput, project, pipeline, runVars>>

(* l.56-80: execution role, task definition, its container and port *)
DefineTask ==
  /\ pc = "ec2TaskDefinition"
  /\ ec2TaskDefinition' =
       [defined |-> TRUE,
        containers |-> << [name |-> ContainerName,
                           image |-> ContainerImage(ecrRepositoryUri),
                           memoryLimitMiB |-> 512, cpu |-> 256,
                           containerPort |-> 80] >>]
  /\ pc' = NextStatement("ec2TaskDefinition")
  /\ UNCHANGED <<vpcId, ecrRepositoryUri, vpc, ecsSecurityGroup, repository,
                 cluster, autoScalingGroup, ec2Service, sourceOutput,
                 buildOutput, project, pipeline, runVars>>

(* l.84-89 *)
DefineService ==
  /\ pc = "ec2Service"
  /\ ec2Service' = [defined |-> TRUE, cluster |-> cluster,
                    taskDefinition |-> ec2TaskDefinition,
                    publicLoadBalancer |-> TRUE]
  /\ pc' = NextStatement("ec2Service")
  /\ UNCHANGED <<vpcId, ecrRepositoryUri, vpc, ecsSecurityGroup, repository,
                 cluster, autoScalingGroup, ec2TaskDefinition, sourceOutput,
                 buildOutput, project, pipeline, runVars>>

(* l.92-93 *)
DefineArtifacts ==
  /\ pc = "artifacts"
  /\ sourceOutput' = "sourceOutput"
  /\ buildOutput' = "buildOutput"
  /\ pc' = NextStatement("artifacts")
  /\ UNCHANGED <<vpcId, ecrRepositoryUri, vpc, ecsSecurityGroup, repository,
                 cluster, autoScalingGroup, ec2TaskDefinition, ec2Service,
                 project, pipeline, runVars>>

(* l.96-141 *)
DefineProject ==
  /\ pc = "project"
  /\ project' = [defined |-> TRUE, buildSpec |-> BuildSpec(ecrRepositoryUri)]
  /\ pc' = NextStatement("project")
  /\ UNCHANGED <<vpcId, ecrRepositoryUri, vpc, ecsSecurityGroup, repository,
                 cluster, autoScalingGroup, ec2TaskDefinition, ec2Service,
                 sourceOutput, buildOutput, pipeline, runVars>>

(* l.150-155 *)
SourceStage ==
  [stageName |-> "Source",
   actions |-> << [actionName |-> "ECR_Source", kind |-> "EcrSource",
                   repository |-> repository, imageTag |-> "latest",
                   inputs |-> {}, outputs |-> {sourceOutput}] >>]

(* l.159-167 *)
BuildStage ==
  [stageName |-> "Build",
   actions |-> << [actionName |-> "Generate_Image_Definitions",
                   kind |-> "CodeBuild", project |-> project,
                   inputs |-> {sourceOutput}, outputs |-> {buildOutput}] >>]

(* Variants of the image file: read from the source artifact; another path. *)
DeployImageFile_FromSource == [artifact |-> sourceOutput, path |-> "imagedefinitions.json"]
DeployImageFile_OtherPath == [artifact |-> buildOutput, path |-> "imageDetail.json"]

(* l.175: buildOutput.atPath('imagedefinitions.json') *)
DeployImageFile == [artifact |-> buildOutput, path |-> "imagedefinitions.json"]

(* l.170-177: the deploy action's input is the artifact of its imageFile *)
DeployStage ==
  [stageName |-> "Deploy",
   actions |-> << [actionName |-> "ECS_Deploy", kind |-> "EcsDeploy",
                   service |-> ec2Service, imageFile |-> DeployImageFile,
                   inputs |-> {DeployImageFile.artifact}, outputs |-> {}] >>]

(* Variants of the stages array: Build declared first; Deploy left out. *)
PipelineStages_BuildFirst == <<BuildStage, SourceStage, DeployStage>>
PipelineStages_NoDeploy == <<SourceStage, BuildStage>>

(* l.146-179: the stages array *)
PipelineStages == <<SourceStage, BuildStage, DeployStage>>

(* l.144-180 *)
DefinePipeline ==
  /\ pc = "pipeline"
  /\ pipeline' = [defined |-> TRUE, pipelineName |-> "MyEcrToEcsPipeline",
                  stages |-> PipelineStages]
  /\ pc' = NextStatement("pipeline")
  /\ UNCHANGED <<vpcId, ecrRepositoryUri, vpc, ecsSecurityGroup, repository,
                 cluster, autoScalingGroup, ec2TaskDefinition, ec2Service,
                 sourceOutput, buildOutput, project, runVars>>

----------------------------------------------------------------------------
(* The build execution service running the commands of a build spec *)

(* printf FORMAT ARGS: each %s takes the next argument (nothing when they
   have run out); the format is used again while arguments remain. *)
RECURSIVE PrintfPass(_, _)
PrintfPass(fmt, args) ==
  IF fmt = <<>> THEN [out |-> <<>>, rest |-> args]
  ELSE IF Head(fmt) = "%s"
       THEN LET a == IF args = <<>> THEN <<>> ELSE Head(args)
                r == PrintfPass(Tail(fmt), IF args = <<>> THEN <<>> ELSE Tail(args))
            IN  [out |-> a \o r.out, rest |-> r.rest]
       ELSE LET r == PrintfPass(Tail(fmt), args)
            IN  [out |-> <<Head(fmt)>> \o r.out, rest |-> r.rest]

RECURSIVE Printf(_, _)
Printf(fmt, args) ==
  LET p == PrintfPass(fmt, args)
  IN  IF p.rest = <<>> \/ Len(p.rest) = Len(args) THEN p.out
      ELSE p.out \o Printf(fmt, p.rest)

(* Parameter expansion of an unquoted word: $REPOSITORY_URI becomes the
   variable's value (nothing when unset), and the result is split into
   fields. *)
RECURSIVE Substitute(_, _)
Substitute(word, env) ==
  IF word = <<>> THEN <<>>
  ELSE (IF Head(word) = "$REPOSITORY_URI" THEN env ELSE <<Head(word)>>)
         \o Substitute(Tail(word), env)

RECURSIVE ExpandArgs(_, _)
ExpandArgs(args, env) ==
  IF args = <<>> THEN <<>>
  ELSE Fields(Substitute(Head(args), env)) \o ExpandArgs(Tail(args), env)

WriteFile(files, path, content) ==
  {f \in files : f.path # path} \cup {[path |-> path, content |-> content]}

(* One command.  sh = [ok, env, files]: the exit status so far, the value of
   REPOSITORY_URI (empty when unset) and the files of the working directory.
   ext: whether what lies outside the build answers.
   A line of one word NAME=value sets the variable; with more words the
   first is an assignment for the command made of the others only, and that
   command is one the build image may or may not have. *)
RunCommand(cmd, sh, ext) ==
  CASE cmd.op = "echo" -> sh
    [] cmd.op = "external" -> [sh EXCEPT !.ok = ext]
    [] cmd.op = "line" ->
         LET words == Fields(cmd.text)
         IN  IF Len(words) = 0 THEN sh
             ELSE IF Len(words) = 1 /\ Head(words[1]) = "REPOSITORY_URI="
             THEN [sh EXCEPT !.env = Tail(words[1])]
             ELSE [sh EXCEPT !.ok = ext]
    [] cmd.op = "printf" ->
         [sh EXCEPT !.files =
            WriteFile(sh.files, cmd.file,
                      Printf(cmd.format, ExpandArgs(cmd.args, sh.env)))]

(* The commands of a phase in order; the first failing command ends the
   build. *)
RECURSIVE RunCommands(_, _, _)
RunCommands(cmds, sh, ext) ==
  IF cmds = <<>> \/ ~sh.ok THEN sh
  ELSE RunCommands(Tail(cmds), RunCommand(Head(cmds), sh, ext), ext)

(* pre_build, then build, in the working directory holding the input
   artifact; the output artifact is the files artifacts.files names. *)
RunBuild(spec, inputFiles, ext) ==
  LET sh0 == [ok |-> TRUE, env |-> <<>>, files |-> inputFiles]
      sh1 == RunCommands(spec.pre_build, sh0, ext)
      sh2 == RunCommands(spec.build, sh1, ext)
      out == {f \in sh2.files : f.path \in spec.files}
  IN  [ok |-> sh2.ok /\ out # {}, files |-> out]

(* What the deploy action reads in imagedefinitions.json: one array of one
   object with the fields name and imageUri. *)
ParseImageDefinitions(c) ==
  LET mids == {i \in 1..Len(c) : c[i] = MidText}
      marks == {i \in 1..Len(c) : c[i] \in {OpenText, CloseText}}
  IN  IF /\ Len(c) >= 3
         /\ c[1] = OpenText
         /\ c[Len(c)] = CloseText
         /\ marks = {1, Len(c)}
         /\ Cardinality(mids) = 1
      THEN LET m == CHOOSE i \in mids : TRUE
           IN  [ok |-> TRUE,
                entries |-> << [name |-> SubSeq(c, 2, m - 1),
                                imageUri |-> SubSeq(c, m + 1, Len(c) - 1)] >>]
      ELSE [ok |-> FALSE, entries |-> <<>>]

----------------------------------------------------------------------------
(* The pipeline orchestration service executing the declared stages *)

Present(store, a) == \E r \in store : r.name = a
FilesOf(store, a) == UNION {r.files : r \in {q \in store : q.name = a}}

(* What the source action puts into its output artifact. *)
SourceFiles == {[path |-> "imageDetail.json", content |-> <<"imageDetail">>]}

(* The outcome of running one action against the artifacts produced so far.
   ext: whether the services the action calls answer. *)
ActionResult(act, store, ext) ==
  LET fail(why) == [ok |-> FALSE, failure |-> why, files |-> {}, image |-> <<>>]
      done(files, image) ==
        [ok |-> TRUE, failure |-> "None", files |-> files, image |-> image]
  IN
  IF \E a \in act.inputs : ~Present(store, a) THEN fail("ArtifactMissing")
  ELSE CASE act.kind = "EcrSource" ->
              IF ext THEN done(SourceFiles, <<>>) ELSE fail("SourceFailure")
         [] act.kind = "CodeBuild" ->
              LET input == UNION {FilesOf(store, a) : a \in act.inputs}
                  b == RunBuild(act.project.buildSpec, input, ext)
              IN  IF b.ok THEN done(b.files, <<>>) ELSE fail("BuildCommandFailure")
         [] act.kind = "EcsDeploy" ->
              LET found == {f \in FilesOf(store, act.imageFile.artifact) :
                              f.path = act.imageFile.path}
              IN  IF found = {} THEN fail("ArtifactMissing")
                  ELSE LET m == ParseImageDefinitions((CHOOSE f \in found : TRUE).content)
                           names == {act.service.taskDefinition.containers[i].name :
                                       i \in 1..Len(act.service.taskDefinition.containers)}
                       IN  IF /\ ext
                              /\ m.ok
                              /\ \A i \in 1..Len(m.entries) : m.entries[i].name \in names
                           THEN done({}, m.entries[1].imageUri)
                           ELSE fail("DeployFailure")

(* State machine of one execution. *)
RunningState(stageName) ==
  CASE stageName = "Source" -> "SourceRunning"
    [] stageName = "Build"  -> "BuildRunning"
    [] stageName = "Deploy" -> "DeployRunning"

Running == {"SourceRunning", "BuildRunning", "DeployRunning"}
Terminal == {"Succeeded", "Failed"}

(* The repository an image URI names: what follows the registry host. *)
RepositoryPath(uri) ==
  LET parts == Split(uri, "/")
  IN  IF Len(parts) < 2 THEN <<>> ELSE SubSeq(uri, Len(parts[1]) + 2, Len(uri))

(* Repositories of the registry an image can be pushed to (their names have
   no blank and no empty path segment), and tags. *)
IsRepositoryName(n) ==
  /\ n # <<>>
  /\ \A i \in 1..Len(n) : n[i] # " "
  /\ \A i \in 1..Len(Split(n, "/")) : Split(n, "/")[i] # <<>>
PushTargets(uri) ==
  {n \in {RepositoryPath(uri)} \cup
           {Split(uri, "/")[i] : i \in 1..Len(Split(uri, "/"))} :
     IsRepositoryName(n)}
Tags == {"latest", "v1"}

(* A push of tag to repository repoName starts an execution when the source
   action watches that repository and tag. *)
Trigger(repoName, tag) ==
  /\ pipeline.defined
  /\ state \in {"Pending"} \cup Terminal
  /\ execId < MaxExecutions
  /\ \E i \in 1..Len(pipeline.stages) :
       LET act == pipeline.stages[i].actions[1]
       IN  /\ act.kind = "EcrSource"
           /\ act.repository.repositoryName = repoName
           /\ act.imageTag = tag
  /\ execId' = execId + 1
  /\ trigger' = [repositoryName |-> repoName, imageTag |-> tag]
  /\ stageIdx' = 1
  /\ state' = RunningState(pipeline.stages[1].stageName)
  /\ started' = <<pipeline.stages[1].stageName>>
  /\ succeeded' = <<>>
  /\ artifactStore' = {}
  /\ reads' = {}
  /\ writes' = {}
  /\ failure' = "None"
  /\ UNCHANGED <<defVars, rolledOut>>

ImagePushed ==
  \E repoName \in PushTargets(ecrRepositoryUri), tag \in Tags :
    Trigger(repoName, tag)

(* The running stage's action succeeds: its outputs are stored and the next
   stage starts, or, after the last stage, the execution has succeeded. *)
StageSucceeds ==
  /\ state \in Running
  /\ LET stage == pipeline.stages[stageIdx]
         act == stage.actions[1]
         r == ActionResult(act, artifactStore, TRUE)
     IN  /\ r.ok
         /\ artifactStore' = artifactStore \cup
                               {[name |-> a, files |-> r.files] : a \in act.outputs}
         /\ reads' = reads \cup {<<stage.stageName, a>> : a \in act.inputs}
         /\ writes' = writes \cup {<<stage.stageName, a>> : a \in act.outputs}
         /\ succeeded' = Append(succeeded, stage.stageName)
         /\ rolledOut' = IF act.kind = "EcsDeploy" THEN r.image ELSE rolledOut
         /\ IF stageIdx < Len(pipeline.stages)
            THEN /\ stageIdx' = stageIdx + 1
                 /\ state' = RunningState(pipeline.stages[stageIdx + 1].stageName)
                 /\ started' = Append(started, pipeline.stages[stageIdx + 1].stageName)
            ELSE /\ state' = "Succeeded"
                 /\ UNCHANGED <<stageIdx, started>>
  /\ UNCHANGED <<defVars, execId, trigger, failure>>

(* Variant: a failed action is run again instead of ending the execution. *)
StageFails_Retry ==
  /\ state \in Running
  /\ \E ext \in BOOLEAN :
       LET stage == pipeline.stages[stageIdx]
           act == stage.actions[1]
           r == ActionResult(act, artifactStore, ext)
       IN  /\ ~r.ok
           /\ failure' = r.failure
           /\ reads' = reads \cup {<<stage.stageName, a>> :
                                     a \in {x \in act.inputs : Present(artifactStore, x)}}
  /\ UNCHANGED <<defVars, execId, state, stageIdx, started, succeeded, trigger,
                 artifactStore, writes, rolledOut>>

(* The running stage's action fails: the execution has failed. *)
StageFails ==
  /\ state \in Running
  /\ \E ext \in BOOLEAN :
       LET stage == pipeline.stages[stageIdx]
           act == stage.actions[1]
           r == ActionResult(act, artifactStore, ext)
       IN  /\ ~r.ok
           /\ failure' = r.failure
           /\ reads' = reads \cup {<<stage.stageName, a>> :
                                     a \in {x \in act.inputs : Present(artifactStore, x)}}
  /\ state' = "Failed"
  /\ UNCHANGED <<defVars, execId, stageIdx, started, succeeded, trigger,
                 artifactStore, writes, rolledOut>>

----------------------------------------------------------------------------
Init ==
  /\ vpcId \in VpcIds
  /\ ecrRepositoryUri \in Uris
  /\ pc = "vpc"
  /\ vpc = NoVpc
  /\ ecsSecurityGroup = NoSecurityGroup
  /\ repository = NoRepository
  /\ cluster = NoCluster
  /\ autoScalingGroup = NoAutoScalingGroup
  /\ ec2TaskDefinition = NoTaskDefinition
  /\ ec2Service = NoService
  /\ sourceOutput = NoArtifact
  /\ buildOutput = NoArtifact
  /\ project = NoProject
  /\ pipeline = NoPipeline
  /\ execId = 0
  /\ state = "Pending"
  /\ stageIdx = 0
  /\ started = <<>>
  /\ succeeded = <<>>
  /\ trigger = [repositoryName |-> <<>>, imageTag |-> ""]
  /\ artifactStore = {}
  /\ reads = {}
  /\ writes = {}
  /\ failure = "None"
  /\ rolledOut = <<>>

Next ==
  \/ ResolveVpc
  \/ DefineSecurityGroup
  \/ ResolveRepository
  \/ DefineCluster
  \/ AddCapacity
  \/ DefineTask
  \/ DefineService
  \/ DefineArtifacts
  \/ DefineProject
  \/ DefinePipeline
  \/ ImagePushed
  \/ StageSucceeds
  \/ StageFails

Spec == Init /\ [][Next]_vars

(* Every running stage eventually reports success or failure. *)
FairSpec == Spec /\ WF_vars(StageFails \/ StageSucceeds)

----------------------------------------------------------------------------
(* Properties *)

DeclaredOrder == <<"Source", "Build", "Deploy">>

IsPrefix(s, t) == Len(s) <= Len(t) /\ SubSeq(t, 1, Len(s)) = s

(* A registry URI of the form <host>/<repository path>: a host and one or
   more path segments, none empty, no blank. *)
ValidUri(uri) ==
  LET parts == Split(uri, "/")
  IN  /\ Len(parts) >= 2
      /\ \A i \in 1..Len(parts) : parts[i] # <<>>
      /\ \A i \in 1..Len(uri) : uri[i] # " "

(* The manifests in the build artifact of the current execution. *)
Manifests ==
  {f \in FilesOf(artifactStore, "buildOutput") : f.path = "imagedefinitions.json"}

BuildSucceeded == Present(artifactStore, "buildOutput")

(* C1: within one execution the stages start in the order Source, Build,
   Deploy, none twice, and a stage starts only after the stage before it has
   completed successfully. *)
C1_StageOrder ==
  /\ IsPrefix(started, DeclaredOrder)
  /\ \A i \in 2..Len(started) :
       /\ i - 1 <= Len(succeeded)
       /\ succeeded[i - 1] = DeclaredOrder[i - 1]
  /\ IsPrefix(succeeded, started)

C1_Witness == state = "DeployRunning" /\ started = DeclaredOrder

(* C2: once a stage has failed in an execution the pipeline is Failed and,
   within that execution, stays Failed: no stage starts, none completes, and
   the failed stage is not run again. *)
C2_FailureHalts ==
  [][ (failure' # "None" /\ execId' = execId)
        => /\ state' = "Failed"
           /\ started' = started
           /\ succeeded' = succeeded
           /\ (state = "Failed" => failure' = failure) ]_vars

C2_Witness ==
  /\ state = "Failed"
  /\ failure = "BuildCommandFailure"
  /\ started = <<"Source", "Build">>
  /\ succeeded = <<"Source">>

(* Stages whose action lists artifact a among its outputs / inputs. *)
Producers(a) ==
  {pipeline.stages[i].stageName : i \in {j \in 1..Len(pipeline.stages) :
                                           a \in pipeline.stages[j].actions[1].outputs}}
Consumers(a) ==
  {pipeline.stages[i].stageName : i \in {j \in 1..Len(pipeline.stages) :
                                           a \in pipeline.stages[j].actions[1].inputs}}
DeclaredArtifacts ==
  UNION {pipeline.stages[i].actions[1].inputs \cup pipeline.stages[i].actions[1].outputs :
           i \in 1..Len(pipeline.stages)}

(* C3: the pipeline has exactly two artifacts; the Source artifact is
   produced only by Source and consumed only by Build, the Build artifact
   produced only by Build and consumed only by Deploy; and an artifact a
   stage has consumed was produced by a stage that completed earlier in the
   same execution. *)
C3_ArtifactHandOff ==
  /\ pipeline.defined =>
       /\ Cardinality(DeclaredArtifacts) = 2
       /\ DeclaredArtifacts = {sourceOutput, buildOutput}
       /\ Producers(sourceOutput) = {"Source"}
       /\ Consumers(sourceOutput) = {"Build"}
       /\ Producers(buildOutput) = {"Build"}
       /\ Consumers(buildOutput) = {"Deploy"}
  /\ \A r \in reads :
       \E w \in writes :
         /\ w[2] = r[2]
         /\ \E i, j \in 1..Len(started) :
              /\ i < j
              /\ started[i] = w[1]
              /\ started[j] = r[1]
              /\ i <= Len(succeeded)

C3_Witness == <<"Deploy", "buildOutput">> \in reads /\ state = "Succeeded"

(* C4: for a valid registry URI the manifest of a successful build has
   exactly one entry, named MyContainer, with imageUri <uri>:latest. *)
C4_Manifest ==
  (ValidUri(ecrRepositoryUri) /\ BuildSucceeded) =>
    /\ Cardinality(Manifests) = 1
    /\ \A f \in Manifests :
         LET m == ParseImageDefinitions(f.content)
         IN  /\ m.ok
             /\ Len(m.entries) = 1
             /\ m.entries[1].name = <<"MyContainer">>
             /\ m.entries[1].imageUri = ecrRepositoryUri \o <<":latest">>

C4_Witness ==
  /\ ecrRepositoryUri = <<"a", "/", "a">>
  /\ BuildSucceeded

(* The characters the shell takes literally, of those modelled. *)
ShellLiteral(uri) == \A i \in 1..Len(uri) : uri[i] \in {"a", "/"}

(* The manifest of the build artifact and the image rolled out agree with
   the task definition's container. *)
ManifestMatchesTask ==
  /\ \A f \in Manifests :
       LET m == ParseImageDefinitions(f.content)
       IN  /\ m.ok
           /\ \A i \in 1..Len(m.entries) :
                /\ m.entries[i].name = ec2TaskDefinition.containers[1].name
                /\ m.entries[i].imageUri = ec2TaskDefinition.containers[1].image
  /\ rolledOut # <<>> => rolledOut = ec2TaskDefinition.containers[1].image

(* C5, as stated: for every input, the manifest's name and imageUri equal the
   task definition's container name and image, and so does the image rolled
   out. *)
C5_EveryInput == BuildSucceeded => ManifestMatchesTask

(* C5, amended: the same, for every ecrRepositoryUri made only of characters
   the shell takes literally. *)
C5_LiteralUri ==
  (ShellLiteral(ecrRepositoryUri) /\ BuildSucceeded) => ManifestMatchesTask

C5_Witness ==
  /\ ValidUri(ecrRepositoryUri)
  /\ rolledOut = ecrRepositoryUri \o <<":latest">>
  /\ BuildSucceeded

(* C6: when vpcId does not exist the constructor ends at the lookup: no
   cluster, capacity, task, service, pipeline or stage is defined. *)
C6_FailFast ==
  vpcId \notin ExistingVpcs =>
    /\ pc \in {"vpc", "failed"}
    /\ ~cluster.defined
    /\ ~autoScalingGroup.defined
    /\ ~ec2TaskDefinition.defined
    /\ ~ec2Service.defined
    /\ ~pipeline.defined
    /\ pipeline.stages = <<>>
    /\ execId = 0

C6_Witness == vpcId \notin ExistingVpcs /\ pc = "failed"

AnyProvisioned ==
  \/ cluster.defined
  \/ autoScalingGroup.defined
  \/ ec2TaskDefinition.defined
  \/ ec2Service.defined
  \/ project.defined
  \/ pipeline.defined

(* C7, as stated: both handles are resolved before any step of 4.2 (the
   security group included), 4.3 or 4.4. *)
C7_BothBeforeAll ==
  (ecsSecurityGroup.defined \/ AnyProvisioned) =>
    (vpc.resolved /\ repository.resolved)

(* C7, amended: the network handle is resolved before every definition step;
   the registry handle is resolved after the security group is defined and
   before cluster, capacity, task, service and pipeline; and a step that uses
   a handle uses a resolved one. *)
C7_ReadBeforeUse ==
  /\ ecsSecurityGroup.defined => vpc.resolved
  /\ repository.resolved => ecsSecurityGroup.defined
  /\ AnyProvisioned => (vpc.resolved /\ repository.resolved)
  /\ ecsSecurityGroup.defined => ecsSecurityGroup.vpc.resolved
  /\ cluster.defined => cluster.vpc.resolved
  /\ \A i \in 1..Len(pipeline.stages) :
       pipeline.stages[i].actions[1].kind = "EcrSource" =>
         pipeline.stages[i].actions[1].repository.resolved

C7_Witness ==
  /\ pipeline.defined
  /\ pipeline.stages[1].actions[1].repository.resolved
  /\ cluster.vpc.resolved

(* The deploy actions of the declared pipeline. *)
DeployActions ==
  {pipeline.stages[i].actions[1] :
     i \in {j \in 1..Len(pipeline.stages) :
              pipeline.stages[j].actions[1].kind = "EcsDeploy"}}

(* C8: the file the deploy action reads is the one file the build spec
   declares as artifact, the build artifact holds that file and no other,
   and no stage fails with ArtifactMissing. *)
C8_NoArtifactMissing ==
  /\ failure # "ArtifactMissing"
  /\ pipeline.defined =>
       \A d \in DeployActions :
         /\ d.imageFile.artifact = buildOutput
         /\ project.buildSpec.files = {d.imageFile.path}
         /\ BuildSucceeded =>
              {f.path : f \in FilesOf(artifactStore, "buildOutput")} = {d.imageFile.path}

C8_Witness == rolledOut # <<>> /\ BuildSucceeded /\ "Deploy" \in {succeeded[i] : i \in 1..Len(succeeded)}

(* C9: an execution that is running eventually is Succeeded or Failed;
   Succeeded is reached only with Source, Build and Deploy completed in that
   order; Succeeded and Failed are not left within the execution. *)
C9_Terminates ==
  /\ [](state \in Running => <>(state \in Terminal))
  /\ [](state = "Succeeded" => succeeded = DeclaredOrder)
  /\ [][(state \in Terminal /\ execId' = execId) => state' = state]_vars

C9_Witness == state = "Succeeded" /\ execId = MaxExecutions

(* C10: for a URI <host>/<repository path> the repository the source action
   watches is the repository the image URI names, and an execution is
   started by a push of latest to that repository only. *)
C10_SameRepository ==
  ValidUri(ecrRepositoryUri) =>
    /\ repository.resolved =>
         /\ repository.repositoryName = RepositoryPath(ecrRepositoryUri)
         /\ repository.repositoryArn =
              <<"arn:aws:ecr:", Region, ":", Account, ":repository/">>
                \o RepositoryPath(ecrRepositoryUri)
    /\ execId > 0 =>
         /\ trigger.repositoryName = RepositoryPath(ecrRepositoryUri)
         /\ trigger.imageTag = "latest"

====
